---- MODULE Spec2Model ----
(***************************************************************************)
(* A model of the OnRobot 2FG client: the TWOFG operation driver           *)
(* (src/onrobot/twofg.py) with its per-call RPC lock, and the status cache *)
(* of OnRobotStatusClient (src/onrobot/status_client.py).                  *)
(*                                                                         *)
(* Python values that may be of several types (return values, locals that  *)
(* hold either a flag or an error code) are records [t, v, s]: the type    *)
(* tag, the numeric value (True = 1, False = 0, as in Python) and, for a   *)
(* string, its characters.  The slot index t_index is passed unchanged to  *)
(* every remote call and is left out of the operation driver.              *)
(***************************************************************************)
EXTENDS Integers, Sequences, FiniteSets, TLC

VARIABLES
    th,          \* per caller thread: position in the running operation and its locals
    lock,        \* TWOFG._lock: 0 when free, else the thread holding it
    chan,        \* threads with a call in progress on the shared RPC/REST channel
    live_min,    \* the device's minimum external width (reply of twofg_get_min_external_width)
    live_max,    \* the device's maximum external width (reply of twofg_get_max_external_width)
    cb_ip,       \* TWOFG._cb_ip: whether a Compute Box address is configured
    client,      \* TWOFG._status_client: [made, connected, on_update]
    latest,      \* the mapping object OnRobotStatusClient._latest refers to:
                 \* its identity, its keys and its "devices" list
    latest_timestamp,  \* OnRobotStatusClient._latest_timestamp: 0 for None
    handler,     \* _handle_message: [pc, broken], pc = "callback" between the locked
                 \* block and the callback
    cache_lock,  \* OnRobotStatusClient._lock: "free", or "handler" / "reader" holding it
    nmsgs,       \* messages pushed so far; the clock reads n at the n-th message
    got,         \* what the caller's last cache read returned
    hist         \* history of the status stream

opvars == <<th, lock, chan, live_min, live_max, cb_ip>>
stvars == <<client, latest, latest_timestamp, handler, cache_lock, nmsgs, got, hist>>
vars == <<th, lock, chan, live_min, live_max, cb_ip,
          client, latest, latest_timestamp, handler, cache_lock, nmsgs, got, hist>>

----------------------------------------------------------------------------
(* Python values *)

PyInt(n) == [t |-> "int", v |-> n, s |-> <<>>]
PyBool(b) == [t |-> "bool", v |-> IF b THEN 1 ELSE 0, s |-> <<>>]
PyFloat(tenths) == [t |-> "float", v |-> tenths, s |-> <<>>]
PyStr(chars) == [t |-> "str", v |-> 0, s |-> chars]
PyNone == [t |-> "none", v |-> 0, s |-> <<>>]
\* not a Python value: the operation has not returned yet
Running == [t |-> "running", v |-> 0, s |-> <<>>]
\* not a Python value: an exception left the operation
Raised == [t |-> "exc", v |-> 0, s |-> <<>>]

IsNumber(x) == x.t \in {"int", "bool", "float"}
\* the number a numeric value compares as (floats are kept in tenths)
Tenths(x) == IF x.t = "float" THEN x.v ELSE 10 * x.v
\* Python truth value
Truthy(x) ==
    CASE x.t \in {"int", "bool", "float"} -> x.v # 0
      [] x.t = "str" -> Len(x.s) > 0
      [] OTHER -> FALSE
\* Python "x is False"
IsFalse(x) == x.t = "bool" /\ x.v = 0
\* Python "x == n" for an integer n
EqInt(x, n) == IsNumber(x) /\ Tenths(x) = 10 * n

----------------------------------------------------------------------------
(* Program constants *)

TWOFG_ID == 192
CONN_ERR == -2
RET_OK == 0
RET_FAIL == -1

force_min == 20
force_max == 140
speed_min == 10
speed_max == 100

\* poll budgets of grip and move
BUSY_POLL_LIMIT == 30
GRIP_POLL_LIMIT == 20

\* fixed force and speed of move's command
MOVE_FORCE == 100
MOVE_SPEED == 80

----------------------------------------------------------------------------
(* Bounds of the model *)

\* requested widths are drawn from 0..MaxWidth
MaxWidth == 4

\* at most MaxMsgs messages are pushed over the event channel
MaxMsgs == 3
\* a pushed device list has at most MaxDevices entries
MaxDevices == 2

Widths == 0..MaxWidth
Forces == {force_min - 1, force_min, force_max, force_max + 1}
Speeds == {speed_min - 1, speed_min, speed_max, speed_max + 1}
LiveMins == {1}
LiveMaxs == {2, 3}

Operations ==
    {"grip", "move", "stop", "isBusy", "isGripped", "getStatus", "get_ext_width",
     "get_min_ext_width", "get_max_ext_width", "get_force",
     "get_finger_orientation", "set_finger_orientation"}

\* the operations that are one connectivity check and one remote query
SimpleQueries ==
    {"isBusy", "isGripped", "getStatus", "get_ext_width", "get_min_ext_width",
     "get_max_ext_width", "get_force"}

OrientationInputs ==
    {PyNone, PyBool(TRUE), PyInt(0), PyInt(1), PyInt(2), PyInt(-1), PyFloat(-5),
     PyStr(<<"o", "u", "t">>), PyStr(<<" ", "I", "n", "w", "a", "r", "d">>),
     PyStr(<<"u", "p">>)}
OutwardInputs == {PyNone, PyBool(TRUE), PyBool(FALSE)}

----------------------------------------------------------------------------
(* Orientation normalization *)

UpperLetters == <<"A","B","C","D","E","F","G","H","I","J","K","L","M","N","O","P","Q","R","S","T","U","V","W","X","Y","Z">>
LowerLetters == <<"a","b","c","d","e","f","g","h","i","j","k","l","m","n","o","p","q","r","s","t","u","v","w","x","y","z">>

\* str.lower() on one character
LowerChar(c) ==
    IF \E i \in DOMAIN UpperLetters : UpperLetters[i] = c
    THEN LowerLetters[CHOOSE i \in DOMAIN UpperLetters : UpperLetters[i] = c]
    ELSE c

IsSpace(c) == c \in {" ", "\t", "\n", "\r"}

RECURSIVE StripLeft(_)
StripLeft(s) == IF s # <<>> /\ IsSpace(Head(s)) THEN StripLeft(Tail(s)) ELSE s

RECURSIVE StripRight(_)
StripRight(s) ==
    IF s # <<>> /\ IsSpace(s[Len(s)]) THEN StripRight(SubSeq(s, 1, Len(s) - 1)) ELSE s

\* orientation.strip().lower()
Cleaned(s) == LET u == StripRight(StripLeft(s)) IN [i \in 1..Len(u) |-> LowerChar(u[i])]

OutwardLabels == {<<"o","u","t","w","a","r","d">>, <<"o","u","t">>, <<"o","u","t","s","i","d","e">>}
InwardLabels == {<<"i","n","w","a","r","d">>, <<"i","n">>, <<"i","n","s","i","d","e">>}

\* int(x): truncation toward zero
PyIntOf(x) ==
    IF x.t = "float"
    THEN (IF x.v >= 0 THEN x.v \div 10 ELSE -((-x.v) \div 10))
    ELSE x.v

\* TWOFG._normalize_finger_orientation: True (outward), False (inward) or None
NormalizeFingerOrientation(orientation) ==
    CASE orientation.t = "bool" -> orientation
      [] orientation.t = "str" ->
            LET cleaned == Cleaned(orientation.s) IN
            IF cleaned \in OutwardLabels THEN PyBool(TRUE)
            ELSE IF cleaned \in InwardLabels THEN PyBool(FALSE)
            ELSE PyNone
      [] orientation.t \in {"int", "float"} ->
            LET value == PyIntOf(orientation) IN
            IF value < 0 THEN PyNone
            ELSE IF value = 2 THEN PyBool(TRUE)
            ELSE IF value = 1 THEN PyBool(FALSE)
            ELSE PyBool(value # 0)
      [] OTHER -> PyNone

----------------------------------------------------------------------------
(* The operation driver: one record per caller thread *)

IdleThread ==
    [pc |-> "idle", incall |-> FALSE, op |-> "none",
     t_width |-> 0, n_force |-> 0, p_speed |-> 0, f_wait |-> FALSE,
     orientation |-> PyNone, outward |-> PyNone, resolved |-> PyNone,
     max_width |-> PyNone, min_width |-> PyNone,
     fbusy |-> PyNone, gripped |-> PyNone, tim_cnt |-> 0, grip_tim |-> 0,
     inloop |-> FALSE, ret |-> Running,
     \* history of the running operation
     conn0 |-> "none",     \* outcome of the connectivity check that starts it
     later |-> FALSE,      \* a call was begun after that check
     nBusyQ |-> 0,         \* isBusy invocations
     nGripQ |-> 0,         \* isGripped invocations
     rest |-> FALSE,       \* a REST GET was begun
     rpcFailed |-> FALSE,  \* twofg_set_finger_orientation raised
     restFailed |-> FALSE, \* _call_rest raised
     sent |-> <<>>]        \* twofg_grip_external commands dispatched

\* positions at which the thread is about to make a call through _call_xmlrpc / _call_rest
ConnSites == {"conn0", "max_conn", "min_conn", "busy_conn", "grip_conn"}
LockedSites ==
    ConnSites \cup {"max_rpc", "min_rpc", "dispatch", "busy_rpc", "grip_rpc", "query",
                    "getorient", "setorient_rpc", "setorient_rest"}

Threads == DOMAIN th

Set(t, r) == th' = [th EXCEPT ![t] = r]

Return(r, x) == [r EXCEPT !.pc = "done", !.ret = x]

\* the operation is called: every public operation starts with isConnected
Begin(t, op, w, f, s, wait, orientation, outward) ==
    /\ th[t].pc = "idle"
    /\ Set(t, [IdleThread EXCEPT !.pc = "conn0", !.op = op, !.t_width = w, !.n_force = f,
                                 !.p_speed = s, !.f_wait = wait,
                                 !.orientation = orientation, !.outward = outward])
    /\ UNCHANGED <<lock, chan, live_min, live_max, cb_ip, stvars>>

\* mutant: move passes on the force and speed of its caller
CommandOfCaller(r) == <<PyFloat(10 * r.t_width), PyInt(r.n_force), PyInt(r.p_speed)>>

\* the arguments of twofg_grip_external
Command(r) ==
    IF r.op = "grip" THEN <<PyFloat(10 * r.t_width), PyInt(r.n_force), PyInt(r.p_speed)>>
    ELSE <<PyFloat(10 * r.t_width), PyInt(MOVE_FORCE), PyInt(MOVE_SPEED)>>

\* mutant: an RPC call also waits for the status cache's lock
CanAcquireBothFree(t) == lock = 0 /\ cache_lock = "free"

\* "with self._lock:" succeeds only when the lock is free
CanAcquire(t) == lock = 0

\* mutant: the lock is kept when the call ends
LockKept(t) == t

\* the lock when the with-block of _call_xmlrpc / _call_rest is left
LockAfterCall(t) == 0

\* _call_xmlrpc / _call_rest: take the lock and start the call
CallBegin(t) ==
    /\ th[t].pc \in LockedSites
    /\ ~th[t].incall
    /\ CanAcquire(t)
    /\ lock' = t
    /\ chan' = chan \cup {t}
    /\ Set(t, [th[t] EXCEPT !.incall = TRUE,
                            !.later = @ \/ th[t].pc # "conn0",
                            !.rest = @ \/ th[t].pc = "setorient_rest",
                            !.sent = IF th[t].pc = "dispatch"
                                     THEN Append(@, Command(th[t])) ELSE @])
    /\ UNCHANGED <<live_min, live_max, cb_ip, stvars>>

\* the call ends (it returned or raised): the with-block releases the lock
CallEnd(t, r) ==
    /\ th[t].incall
    /\ lock' = LockAfterCall(t)
    /\ chan' = chan \ {t}
    /\ Set(t, [r EXCEPT !.incall = FALSE])
    /\ UNCHANGED <<live_min, live_max, cb_ip, stvars>>

\* mutant: an exception of the connectivity query counts as connected
isConnectedUnlessFalse(raised, reply) == raised \/ ~IsFalse(reply)

\* TWOFG.isConnected on the outcome of cb_is_device_connected
isConnected(raised, reply) ==
    LET IsTwoFG == IF raised THEN PyBool(FALSE) ELSE reply IN ~IsFalse(IsTwoFG)

CallIsBusy(r, loop) == [r EXCEPT !.pc = "busy_conn", !.inloop = loop, !.nBusyQ = @ + 1]
CallIsGripped(r, loop) == [r EXCEPT !.pc = "grip_conn", !.inloop = loop, !.nGripQ = @ + 1]

\* mutant: the busy-wait goes on for one more iteration
BusyTimedOutLate(tim_cnt) == tim_cnt > BUSY_POLL_LIMIT + 1

\* mutant: the busy-wait gives up one iteration early
BusyTimedOutEarly(tim_cnt) == tim_cnt >= BUSY_POLL_LIMIT

BusyTimedOut(tim_cnt) == tim_cnt > BUSY_POLL_LIMIT
GripTimedOut(grip_tim) == grip_tim > GRIP_POLL_LIMIT

\* grip's grip-detection loop, after isGripped returned x
AfterIsGripped(r, x) ==
    LET r1 == [r EXCEPT !.gripped = x,
                        !.grip_tim = IF r.inloop THEN @ + 1 ELSE @] IN
    IF r.inloop /\ GripTimedOut(r1.grip_tim) THEN Return(r1, PyInt(RET_FAIL))
    ELSE IF ~Truthy(x) THEN CallIsGripped(r1, TRUE)
    ELSE Return(r1, PyInt(RET_OK))

\* mutant: grip still tries the grip detection after a busy-wait timeout
AfterIsBusyDetectsAnyway(r, x) ==
    LET r1 == [r EXCEPT !.fbusy = x,
                        !.tim_cnt = IF r.inloop THEN @ + 1 ELSE @] IN
    IF r.inloop /\ BusyTimedOut(r1.tim_cnt)
    THEN (IF r.op = "grip" THEN CallIsGripped(r1, FALSE) ELSE Return(r1, PyInt(RET_FAIL)))
    ELSE IF Truthy(x) THEN CallIsBusy(r1, TRUE)
    ELSE IF r.op = "grip" THEN CallIsGripped(r1, FALSE)
    ELSE Return(r1, PyInt(RET_OK))

\* the busy-wait loop of grip and move, after isBusy returned x
AfterIsBusy(r, x) ==
    LET r1 == [r EXCEPT !.fbusy = x,
                        !.tim_cnt = IF r.inloop THEN @ + 1 ELSE @] IN
    IF r.inloop /\ BusyTimedOut(r1.tim_cnt) THEN Return(r1, PyInt(RET_FAIL))
    ELSE IF Truthy(x) THEN CallIsBusy(r1, TRUE)
    ELSE IF r.op = "grip" THEN CallIsGripped(r1, FALSE)
    ELSE Return(r1, PyInt(RET_OK))

\* mutant: the width is checked against the maximum only
WidthAboveMax(t_width, max_width, min_width) == 10 * t_width > Tenths(max_width)

\* mutant: the force is checked against the maximum only
ForceAboveMax(n_force) == n_force > force_max

LimitsUnavailable(max_width, min_width) ==
    EqInt(max_width, CONN_ERR) \/ EqInt(min_width, CONN_ERR)
WidthInvalid(t_width, max_width, min_width) ==
    10 * t_width > Tenths(max_width) \/ 10 * t_width < Tenths(min_width)
ForceInvalid(n_force) == n_force > force_max \/ n_force < force_min
SpeedInvalid(p_speed) == p_speed > speed_max \/ p_speed < speed_min

\* the checks of grip and move between the limit queries and the dispatch
Rejected(r) ==
    \/ LimitsUnavailable(r.max_width, r.min_width)
    \/ WidthInvalid(r.t_width, r.max_width, r.min_width)
    \/ r.op = "grip" /\ (ForceInvalid(r.n_force) \/ SpeedInvalid(r.p_speed))

AfterMinWidth(r, x) ==
    LET r1 == [r EXCEPT !.min_width = x] IN
    IF Rejected(r1) THEN Return(r1, PyInt(RET_FAIL)) ELSE [r1 EXCEPT !.pc = "dispatch"]

AfterMaxWidth(r, x) == [r EXCEPT !.max_width = x, !.pc = "min_conn"]

\* set_finger_orientation: the desired orientation
Resolve(orientation, outward) ==
    IF outward.t # "none" THEN PyBool(Truthy(outward))
    ELSE NormalizeFingerOrientation(orientation)

\* what follows the connectivity check that starts the operation
AfterConnected(r) ==
    CASE r.op \in {"grip", "move"} -> [r EXCEPT !.pc = "max_conn"]
      [] r.op \in SimpleQueries -> [r EXCEPT !.pc = "query"]
      [] r.op = "get_finger_orientation" -> [r EXCEPT !.pc = "getorient"]
      [] r.op = "stop" -> [r EXCEPT !.pc = "stop_rpc"]
      [] r.op = "set_finger_orientation" ->
            LET resolved == Resolve(r.orientation, r.outward) IN
            IF resolved.t = "none" THEN Return(r, PyInt(RET_FAIL))
            ELSE [r EXCEPT !.resolved = resolved, !.pc = "setorient_rpc"]

\* isConnected returns, at the start of an operation or of a nested query
ConnReturn(t) ==
    /\ th[t].pc \in ConnSites
    /\ \E raised \in BOOLEAN, reply \in {PyBool(TRUE), PyBool(FALSE)} :
         LET r == th[t]
             ok == isConnected(raised, reply) IN
         CallEnd(t,
            CASE r.pc = "conn0" ->
                    LET r1 == [r EXCEPT !.conn0 = IF raised THEN "raise"
                                                  ELSE IF ok THEN "yes" ELSE "no"] IN
                    IF ok THEN AfterConnected(r1) ELSE Return(r1, PyInt(CONN_ERR))
              [] r.pc = "max_conn" ->
                    IF ok THEN [r EXCEPT !.pc = "max_rpc"] ELSE AfterMaxWidth(r, PyInt(CONN_ERR))
              [] r.pc = "min_conn" ->
                    IF ok THEN [r EXCEPT !.pc = "min_rpc"] ELSE AfterMinWidth(r, PyInt(CONN_ERR))
              [] r.pc = "busy_conn" ->
                    IF ok THEN [r EXCEPT !.pc = "busy_rpc"] ELSE AfterIsBusy(r, PyInt(CONN_ERR))
              [] r.pc = "grip_conn" ->
                    IF ok THEN [r EXCEPT !.pc = "grip_rpc"] ELSE AfterIsGripped(r, PyInt(CONN_ERR)))

\* twofg_get_max_external_width / twofg_get_min_external_width return, inside grip or move
LimitReturn(t) ==
    /\ th[t].pc \in {"max_rpc", "min_rpc"}
    /\ \E raised \in BOOLEAN :
         LET r == th[t] IN
         CallEnd(t,
            IF raised THEN Return(r, Raised)
            ELSE IF r.pc = "max_rpc" THEN AfterMaxWidth(r, PyInt(live_max))
            ELSE AfterMinWidth(r, PyInt(live_min)))

\* mutant: the busy flag is polled whether or not the caller asked to wait
AfterDispatchAlwaysWaits(r) == CallIsBusy(r, FALSE)

\* grip and move after the command was dispatched: "if f_wait: ... else: return RET_OK"
AfterDispatch(r) == IF r.f_wait THEN CallIsBusy(r, FALSE) ELSE Return(r, PyInt(RET_OK))

\* twofg_grip_external returns, in grip or move
DispatchReturn(t) ==
    /\ th[t].pc = "dispatch"
    /\ \E raised \in BOOLEAN :
         LET r == th[t] IN
         CallEnd(t, IF raised THEN Return(r, Raised) ELSE AfterDispatch(r))

\* twofg_get_busy returns, inside isBusy called by grip or move
BusyReturn(t) ==
    /\ th[t].pc = "busy_rpc"
    /\ \E raised \in BOOLEAN, reply \in {PyBool(TRUE), PyBool(FALSE)} :
         CallEnd(t, IF raised THEN Return(th[t], Raised) ELSE AfterIsBusy(th[t], reply))

\* twofg_get_grip_detected returns, inside isGripped called by grip
GripReturn(t) ==
    /\ th[t].pc = "grip_rpc"
    /\ \E raised \in BOOLEAN, reply \in {PyBool(TRUE), PyBool(FALSE)} :
         CallEnd(t, IF raised THEN Return(th[t], Raised) ELSE AfterIsGripped(th[t], reply))

\* what the remote query of a simple operation may answer
Replies(op) ==
    CASE op \in {"isBusy", "isGripped"} -> {PyBool(TRUE), PyBool(FALSE)}
      [] op = "get_min_ext_width" -> {PyInt(live_min)}
      [] op = "get_max_ext_width" -> {PyInt(live_max)}
      [] op = "get_ext_width" -> {PyInt(live_min), PyInt(live_max)}
      [] op = "get_force" -> {PyInt(0), PyInt(force_min)}
      [] OTHER -> {PyInt(0), PyInt(1)}

\* the remote query of isBusy, isGripped, getStatus, get_*_width, get_force returns
QueryReturn(t) ==
    /\ th[t].pc = "query"
    /\ \E raised \in BOOLEAN, reply \in Replies(th[t].op) :
         CallEnd(t, Return(th[t], IF raised THEN Raised ELSE reply))

\* twofg_finger_orientation_outward returns, in get_finger_orientation
GetOrientReturn(t) ==
    /\ th[t].pc = "getorient"
    /\ \E raised \in BOOLEAN, reply \in {PyBool(TRUE), PyBool(FALSE), PyInt(2)} :
         CallEnd(t, Return(th[t], IF raised THEN PyInt(RET_FAIL) ELSE reply))

\* mutant: _call_rest goes on without a Compute Box address
CallRestNeverRefused(ip) == FALSE

\* _call_rest: "if not self._cb_ip: raise RuntimeError", before the lock is taken
CallRestRefused(ip) == ~ip

\* twofg_set_finger_orientation returns; when it raised, _call_rest is entered
SetOrientRpcReturn(t) ==
    /\ th[t].pc = "setorient_rpc"
    /\ \E raised \in BOOLEAN :
         LET r == [th[t] EXCEPT !.rpcFailed = raised] IN
         CallEnd(t,
            IF ~raised THEN Return(r, PyInt(RET_OK))
            ELSE IF CallRestRefused(cb_ip)
            THEN Return([r EXCEPT !.restFailed = TRUE], PyInt(RET_FAIL))
            ELSE [r EXCEPT !.pc = "setorient_rest"])

\* the REST GET of set_finger_orientation returns
RestReturn(t) ==
    /\ th[t].pc = "setorient_rest"
    /\ \E raised \in BOOLEAN :
         CallEnd(t, Return([th[t] EXCEPT !.restFailed = raised],
                           PyInt(IF raised THEN RET_FAIL ELSE RET_OK)))

\* stop: self.cb.twofg_stop is called directly, not through _call_xmlrpc
StopCallBegin(t) ==
    /\ th[t].pc = "stop_rpc"
    /\ ~th[t].incall
    /\ chan' = chan \cup {t}
    /\ Set(t, [th[t] EXCEPT !.incall = TRUE, !.later = TRUE])
    /\ UNCHANGED <<lock, live_min, live_max, cb_ip, stvars>>

\* twofg_stop returns: stop has no return statement
StopCallReturn(t) ==
    /\ th[t].pc = "stop_rpc"
    /\ th[t].incall
    /\ \E raised \in BOOLEAN :
         Set(t, [Return(th[t], IF raised THEN Raised ELSE PyNone) EXCEPT !.incall = FALSE])
    /\ chan' = chan \ {t}
    /\ UNCHANGED <<lock, live_min, live_max, cb_ip, stvars>>

\* the caller has the operation's outcome and is free to call again
Finish(t) ==
    /\ th[t].pc = "done"
    /\ Set(t, IdleThread)
    /\ UNCHANGED <<lock, chan, live_min, live_max, cb_ip, stvars>>

----------------------------------------------------------------------------
(* The status stream: OnRobotStatusClient and TWOFG's use of it *)

\* a variable block {"w": n}
PyDict(n) == [t |-> "dict", v |-> n, s |-> <<>>]

\* the entries a pushed device list is made of
DeviceEntries ==
    {[deviceId |-> 0, productCode |-> TWOFG_ID, variable |-> PyDict(5)],
     [deviceId |-> 0, productCode |-> TWOFG_ID, variable |-> PyNone],
     [deviceId |-> 0, productCode |-> TWOFG_ID + 1, variable |-> PyDict(7)]}

DeviceLists == UNION {[1..n -> DeviceEntries] : n \in 0..MaxDevices}

\* what the event channel may push: a non-mapping, a mapping without "devices",
\* a mapping {"devices": [...]}
Payloads ==
    {[isdict |-> FALSE, keys |-> {}, devices |-> <<>>],
     [isdict |-> TRUE, keys |-> {"other"}, devices |-> <<>>]}
    \cup {[isdict |-> TRUE, keys |-> {"devices"}, devices |-> d] : d \in DeviceLists}

\* no message pushed yet
NoPayload == [isdict |-> FALSE, keys |-> {"none"}, devices |-> <<>>]

\* the empty mapping OnRobotStatusClient is constructed with
EmptyDict == [id |-> 0, keys |-> {}, devices |-> <<>>]

NoResult == [kind |-> "none", keys |-> {}, ref |-> 0, val |-> PyNone, query |-> <<>>]

NoClient == [made |-> FALSE, connected |-> FALSE, on_update |-> FALSE]

IdleHandler == [pc |-> "idle", broken |-> FALSE]

NoHist ==
    [lastMsg |-> NoPayload,   \* the payload last pushed, as it arrived
     lastValidId |-> 0,       \* the most recent pushed mapping with a "devices" key
     changed |-> FALSE,       \* the cached object was modified after it was stored
     cbFor |-> 0,             \* the payload last handed to the callback
     cbFailed |-> FALSE,      \* a callback raised
     cbAfterFail |-> FALSE]   \* a callback was invoked after a callback had raised

\* TWOFG.start_status_stream
StartStatusStream ==
    /\ cb_ip
    /\ \E on_update \in BOOLEAN, ok \in BOOLEAN :
         client' = IF client.made
                   THEN [client EXCEPT !.connected = @ \/ ok]
                   ELSE [made |-> TRUE, connected |-> ok, on_update |-> on_update]
    /\ UNCHANGED <<opvars, cache_lock, latest, latest_timestamp, handler, nmsgs, got, hist>>

\* TWOFG.stop_status_stream
StopStatusStream ==
    /\ client.made
    /\ client.connected
    /\ client' = [client EXCEPT !.connected = FALSE]
    /\ UNCHANGED <<opvars, cache_lock, latest, latest_timestamp, handler, nmsgs, got, hist>>

\* mutant: every mapping is taken for a status payload
AcceptedAnyMapping(payload) == payload.isdict

\* _handle_message: the payload is a status payload
Accepted(payload) == payload.isdict /\ "devices" \in payload.keys

\* _handle_message: self._latest = payload, the pushed object itself
StoredLatest(id, payload) == [id |-> id, keys |-> payload.keys, devices |-> payload.devices]

\* _handle_message up to the end of its locked block
HandleMessage ==
    /\ client.connected
    /\ handler.pc = "idle"
    /\ nmsgs < MaxMsgs
    /\ \E payload \in Payloads :
         LET id == nmsgs + 1
             valid == payload.isdict /\ "devices" \in payload.keys
             h == [hist EXCEPT !.lastMsg = payload,
                               !.lastValidId = IF valid THEN id ELSE @] IN
         /\ nmsgs' = id
         /\ IF handler.broken \/ ~Accepted(payload)
            THEN /\ hist' = h
                 /\ UNCHANGED <<latest, latest_timestamp, handler>>
            ELSE /\ latest' = StoredLatest(id, payload)
                 /\ latest_timestamp' = id
                 /\ handler' = IF client.on_update
                               THEN [handler EXCEPT !.pc = "callback"]
                               ELSE handler
                 /\ hist' = [h EXCEPT !.changed = FALSE]
    /\ UNCHANGED <<opvars, cache_lock, client, got>>

\* a modification of a mapping {"devices": [...]} or of what it holds
Edit(obj, edit) ==
    CASE edit = "del_devices" -> [obj EXCEPT !.keys = @ \ {"devices"}]
      [] edit = "clear_list" -> [obj EXCEPT !.devices = <<>>]
      [] edit = "pop_first" -> [obj EXCEPT !.devices = IF @ = <<>> THEN @ ELSE Tail(@)]
      [] edit = "set_slot" ->
            [obj EXCEPT !.devices = IF @ = <<>> THEN @
                                    ELSE [@ EXCEPT ![1] = [@ EXCEPT !.deviceId = 1 - @]]]
      [] OTHER -> obj

\* mutant: the callback's exception leaves the handler
CallbackEscapesWhenRaised(raised) == raised

\* _handle_message: whether an exception of the callback leaves the handler
CallbackEscapes(raised) == FALSE

\* _handle_message: self._on_update(payload) inside try/except; the callback is
\* handed the object the cache refers to
HandleCallback ==
    /\ handler.pc = "callback"
    /\ \E raised \in BOOLEAN, edit \in {"none", "del_devices", "clear_list"} :
         /\ latest' = Edit(latest, edit)
         /\ handler' = [pc |-> "idle", broken |-> CallbackEscapes(raised)]
         /\ hist' = [hist EXCEPT !.cbFor = latest.id,
                                 !.cbFailed = @ \/ raised,
                                 !.cbAfterFail = @ \/ hist.cbFailed,
                                 !.changed = @ \/ latest' # latest]
    /\ UNCHANGED <<opvars, cache_lock, client, latest_timestamp, nmsgs, got>>

\* OnRobotStatusClient.latest_payload: dict(self._latest), a new mapping with the
\* same keys whose "devices" value is the list object the cache holds
LatestPayload ==
    /\ client.made
    /\ got' = [NoResult EXCEPT !.kind = "payload", !.keys = latest.keys, !.ref = latest.id]
    /\ UNCHANGED <<opvars, cache_lock, client, latest, latest_timestamp, handler, nmsgs, hist>>

RECURSIVE FirstVariable(_, _, _)
\* the loop of get_device_variable over the device list
FirstVariable(devices, device_id, product_code) ==
    IF devices = <<>> THEN PyNone
    ELSE LET device == Head(devices) IN
         IF device.deviceId # device_id
         THEN FirstVariable(Tail(devices), device_id, product_code)
         ELSE IF product_code.t # "none" /\ device.productCode # product_code.v
         THEN FirstVariable(Tail(devices), device_id, product_code)
         ELSE IF device.variable.t = "dict" THEN device.variable
         ELSE FirstVariable(Tail(devices), device_id, product_code)

\* OnRobotStatusClient.get_device_variable on the cache as it is
DeviceVariable(device_id, product_code) ==
    LET devices == IF "devices" \in latest.keys THEN latest.devices ELSE <<>> IN
    FirstVariable(devices, device_id, product_code)

Slots == {0, 1}

\* OnRobotStatusClient.get_device_variable
GetDeviceVariable ==
    /\ client.made
    /\ \E device_id \in Slots, product_code \in {PyNone, PyInt(TWOFG_ID)} :
         got' = [NoResult EXCEPT !.kind = "variable",
                                 !.val = DeviceVariable(device_id, product_code),
                                 !.query = <<device_id, product_code>>]
    /\ UNCHANGED <<opvars, cache_lock, client, latest, latest_timestamp, handler, nmsgs, hist>>

\* TWOFG.get_status_snapshot
GetStatusSnapshot ==
    /\ \E t_index \in Slots :
         got' = [NoResult EXCEPT !.kind = "variable",
                                 !.val = IF ~client.made THEN PyNone
                                         ELSE DeviceVariable(t_index, PyInt(TWOFG_ID)),
                                 !.query = <<t_index, PyInt(TWOFG_ID)>>]
    /\ UNCHANGED <<opvars, cache_lock, client, latest, latest_timestamp, handler, nmsgs, hist>>

\* the caller modifies the mapping latest_payload returned: its own copy
EditOwnMapping ==
    /\ got.kind = "payload"
    /\ "devices" \in got.keys
    /\ got' = [got EXCEPT !.keys = @ \ {"devices"}]
    /\ UNCHANGED <<opvars, cache_lock, client, latest, latest_timestamp, handler, nmsgs, hist>>

\* the caller modifies the device list, or an entry of it, reached through the
\* mapping latest_payload returned: while the cache still refers to the payload
\* it was copied from, that is the list the cache holds
EditSharedDevices ==
    /\ got.kind = "payload"
    /\ "devices" \in got.keys
    /\ got.ref = latest.id
    /\ \E edit \in {"clear_list", "pop_first", "set_slot"} :
         /\ latest' = Edit(latest, edit)
         /\ hist' = [hist EXCEPT !.changed = @ \/ latest' # latest]
    /\ UNCHANGED <<opvars, cache_lock, client, latest_timestamp, handler, nmsgs, got>>

\* the caller modifies the variable block get_device_variable returned: a copy
EditOwnVariable ==
    /\ got.kind = "variable"
    /\ got.val.t = "dict"
    /\ got.val.v < 9
    /\ got' = [got EXCEPT !.val = PyDict(9)]
    /\ UNCHANGED <<opvars, cache_lock, client, latest, latest_timestamp, handler, nmsgs, hist>>

----------------------------------------------------------------------------
(* The status cache's own lock.  In the actions above a with-block of         *)
(* OnRobotStatusClient is one step; here it is entered and left in two steps, *)
(* so that the lock is seen held.                                             *)

\* the messages pushed while the locks are watched: one mapping without
\* "devices" and one status payload (what the list holds plays no part there)
LockPayloads ==
    {[isdict |-> TRUE, keys |-> {"other"}, devices |-> <<>>],
     [isdict |-> TRUE, keys |-> {"devices"},
      devices |-> <<[deviceId |-> 0, productCode |-> TWOFG_ID, variable |-> PyDict(5)]>>]}

\* _handle_message up to "with self._lock:": a message that is not a status
\* payload is dropped without the lock, a status payload waits for the lock
HandleMessageLock ==
    /\ client.connected
    /\ handler.pc = "idle"
    /\ nmsgs < MaxMsgs
    /\ \E payload \in LockPayloads :
         /\ nmsgs' = nmsgs + 1
         /\ hist' = [hist EXCEPT !.lastMsg = payload,
                                 !.lastValidId = IF Accepted(payload) THEN nmsgs + 1 ELSE @]
         /\ IF ~Accepted(payload)
            THEN UNCHANGED <<handler, cache_lock>>
            ELSE /\ cache_lock = "free"
                 /\ cache_lock' = "handler"
                 /\ handler' = [handler EXCEPT !.pc = "store"]
    /\ UNCHANGED <<opvars, client, latest, latest_timestamp, got>>

\* _handle_message: the two assignments of the locked block, and its exit
HandleMessageStore ==
    /\ handler.pc = "store"
    /\ latest' = StoredLatest(nmsgs, hist.lastMsg)
    /\ latest_timestamp' = nmsgs
    /\ cache_lock' = "free"
    /\ handler' = [handler EXCEPT !.pc = IF client.on_update THEN "callback" ELSE "idle"]
    /\ hist' = [hist EXCEPT !.changed = FALSE]
    /\ UNCHANGED <<opvars, client, nmsgs, got>>

\* latest_payload, called directly or by get_device_variable (itself called by
\* get_status_snapshot): "with self._lock:" is entered
ReadLock ==
    /\ client.made
    /\ got.kind # "reading"
    /\ cache_lock = "free"
    /\ cache_lock' = "reader"
    /\ \E q \in {<<>>} \cup {<<device_id, product_code>> :
                                device_id \in Slots, product_code \in {PyNone, PyInt(TWOFG_ID)}} :
         got' = [NoResult EXCEPT !.kind = "reading", !.query = q]
    /\ UNCHANGED <<opvars, client, latest, latest_timestamp, handler, nmsgs, hist>>

\* latest_payload: dict(self._latest) and the exit of the locked block;
\* get_device_variable then scans the list the copy refers to
ReadCopy ==
    /\ got.kind = "reading"
    /\ cache_lock = "reader"
    /\ cache_lock' = "free"
    /\ got' = IF got.query = <<>>
              THEN [NoResult EXCEPT !.kind = "payload", !.keys = latest.keys,
                                    !.ref = latest.id]
              ELSE [NoResult EXCEPT !.kind = "variable",
                                    !.val = DeviceVariable(got.query[1], got.query[2]),
                                    !.query = got.query]
    /\ UNCHANGED <<opvars, client, latest, latest_timestamp, handler, nmsgs, hist>>

----------------------------------------------------------------------------
(* Specifications *)

OpInit(threads) ==
    /\ th = [t \in threads |-> IdleThread]
    /\ lock = 0
    /\ chan = {}

StatusInit ==
    /\ client = NoClient
    /\ latest = EmptyDict
    /\ latest_timestamp = 0
    /\ handler = IdleHandler
    /\ cache_lock = "free"
    /\ nmsgs = 0
    /\ got = NoResult
    /\ hist = NoHist

\* one caller, every operation with every input
Init ==
    /\ OpInit({1})
    /\ live_min \in LiveMins
    /\ live_max \in LiveMaxs
    /\ cb_ip \in BOOLEAN
    /\ StatusInit

StartGrip(t) ==
    \E w \in Widths, f \in Forces, s \in Speeds, wait \in BOOLEAN :
        Begin(t, "grip", w, f, s, wait, PyNone, PyNone)

StartMove(t) ==
    \E w \in Widths, wait \in BOOLEAN : Begin(t, "move", w, 0, 0, wait, PyNone, PyNone)

StartSetOrientation(t) ==
    \E orientation \in OrientationInputs, outward \in OutwardInputs :
        Begin(t, "set_finger_orientation", 0, 0, 0, FALSE, orientation, outward)

StartOther(t) ==
    \E op \in Operations \ {"grip", "move", "set_finger_orientation"} :
        Begin(t, op, 0, 0, 0, FALSE, PyNone, PyNone)

Next ==
    \/ \E t \in Threads : StartGrip(t)
    \/ \E t \in Threads : StartMove(t)
    \/ \E t \in Threads : StartSetOrientation(t)
    \/ \E t \in Threads : StartOther(t)
    \/ \E t \in Threads : CallBegin(t)
    \/ \E t \in Threads : ConnReturn(t)
    \/ \E t \in Threads : LimitReturn(t)
    \/ \E t \in Threads : DispatchReturn(t)
    \/ \E t \in Threads : BusyReturn(t)
    \/ \E t \in Threads : GripReturn(t)
    \/ \E t \in Threads : QueryReturn(t)
    \/ \E t \in Threads : GetOrientReturn(t)
    \/ \E t \in Threads : SetOrientRpcReturn(t)
    \/ \E t \in Threads : RestReturn(t)
    \/ \E t \in Threads : StopCallBegin(t)
    \/ \E t \in Threads : StopCallReturn(t)
    \/ \E t \in Threads : Finish(t)

Spec == Init /\ [][Next]_vars

\* a step of a running operation: a call is begun, or a call in progress returns
\* (with a reply or an exception)
Progress(t) ==
    \/ CallBegin(t)
    \/ ConnReturn(t)
    \/ LimitReturn(t)
    \/ DispatchReturn(t)
    \/ BusyReturn(t)
    \/ GripReturn(t)
    \/ QueryReturn(t)
    \/ GetOrientReturn(t)
    \/ SetOrientRpcReturn(t)
    \/ RestReturn(t)
    \/ StopCallBegin(t)
    \/ StopCallReturn(t)

\* the same caller, when its thread keeps running and every call it makes returns
SpecFair == Init /\ [][Next]_vars /\ WF_vars(\E t \in Threads : Progress(t))

\* the status stream and the cache, with one caller reading it
InitStatus ==
    /\ OpInit({1})
    /\ live_min = 1
    /\ live_max = 3
    /\ cb_ip \in BOOLEAN
    /\ StatusInit

NextStatus ==
    \/ StartStatusStream
    \/ StopStatusStream
    \/ HandleMessage
    \/ HandleCallback
    \/ LatestPayload
    \/ GetDeviceVariable
    \/ GetStatusSnapshot
    \/ EditOwnMapping
    \/ EditSharedDevices
    \/ EditOwnVariable

SpecStatus == InitStatus /\ [][NextStatus]_vars

\* two callers on one TWOFG instance: caller 1 runs blocking grips and moves with
\* valid parameters, caller 2 runs stop, isBusy and set_finger_orientation
InitConc ==
    /\ OpInit({1, 2})
    /\ live_min = 1
    /\ live_max = 3
    /\ cb_ip = TRUE
    /\ StatusInit

StartPoller(t) ==
    /\ t = 1
    /\ \E op \in {"grip", "move"} :
         Begin(t, op, live_min, force_min, speed_min, TRUE, PyNone, PyNone)

StartShort(t) ==
    /\ t = 2
    /\ \E op \in {"stop", "isBusy", "set_finger_orientation"} :
         Begin(t, op, 0, 0, 0, FALSE, PyNone, PyBool(TRUE))

NextConc ==
    \/ \E t \in Threads : StartPoller(t)
    \/ \E t \in Threads : StartShort(t)
    \/ \E t \in Threads : CallBegin(t)
    \/ \E t \in Threads : ConnReturn(t)
    \/ \E t \in Threads : LimitReturn(t)
    \/ \E t \in Threads : DispatchReturn(t)
    \/ \E t \in Threads : BusyReturn(t)
    \/ \E t \in Threads : GripReturn(t)
    \/ \E t \in Threads : QueryReturn(t)
    \/ \E t \in Threads : SetOrientRpcReturn(t)
    \/ \E t \in Threads : RestReturn(t)
    \/ \E t \in Threads : StopCallBegin(t)
    \/ \E t \in Threads : StopCallReturn(t)
    \/ \E t \in Threads : Finish(t)

SpecConc == InitConc /\ [][NextConc]_vars

\* the status stream, a reader of the cache and a caller of RPC operations
\* (caller 2 above) at the same time
InitLocks ==
    /\ OpInit({2})
    /\ live_min = 1
    /\ live_max = 3
    /\ cb_ip = TRUE
    /\ StatusInit

NextLocks ==
    \/ \E t \in Threads : StartShort(t)
    \/ \E t \in Threads : CallBegin(t)
    \/ \E t \in Threads : ConnReturn(t)
    \/ \E t \in Threads : QueryReturn(t)
    \/ \E t \in Threads : SetOrientRpcReturn(t)
    \/ \E t \in Threads : RestReturn(t)
    \/ \E t \in Threads : StopCallBegin(t)
    \/ \E t \in Threads : StopCallReturn(t)
    \/ \E t \in Threads : Finish(t)
    \/ StartStatusStream
    \/ StopStatusStream
    \/ HandleMessageLock
    \/ HandleMessageStore
    \/ HandleCallback
    \/ ReadLock
    \/ ReadCopy

SpecLocks == InitLocks /\ [][NextLocks]_vars

----------------------------------------------------------------------------
(* Claims about the operation driver, checked under Spec *)

Outcome(r, code) == r.pc = "done" /\ r.ret = PyInt(code)

\* C1: when the connectivity query that starts an operation answers not-connected
\* or raises, the operation returns CONNECTION_ERROR and has made no other RPC
\* or REST call and dispatched no command.
C1_ConnectionErrorFirst ==
    \A t \in Threads :
        th[t].conn0 \in {"no", "raise"} =>
            /\ Outcome(th[t], -2)
            /\ ~th[t].later
            /\ ~th[t].rest
            /\ th[t].sent = <<>>

\* a grip whose connectivity query raised has returned CONNECTION_ERROR
C1_Witness ==
    /\ th[1].op = "grip"
    /\ th[1].conn0 = "raise"
    /\ Outcome(th[1], -2)

\* C2: in grip and move on a connected device, once both live limits have been
\* returned, a requested width below the live minimum or above the live maximum
\* makes the operation return FAILED with no command dispatched.
C2_WidthOutsideLiveLimits ==
    \A t \in Threads :
        LET r == th[t] IN
        (/\ r.op \in {"grip", "move"}
         /\ r.conn0 = "yes"
         /\ r.max_width = PyInt(live_max)
         /\ r.min_width = PyInt(live_min)
         /\ (r.t_width < live_min \/ r.t_width > live_max))
        => Outcome(r, -1) /\ r.sent = <<>>

\* a move to a width below the live minimum has returned FAILED
C2_Witness ==
    /\ th[1].op = "move"
    /\ th[1].min_width = PyInt(live_min)
    /\ th[1].max_width = PyInt(live_max)
    /\ th[1].t_width < live_min
    /\ Outcome(th[1], -1)
    /\ th[1].sent = <<>>

\* C3: a grip on a connected device with a force outside [20, 140] or a speed
\* outside [10, 100] never dispatches the command, whatever the width, and the
\* value it returns is FAILED (it returns as soon as the limit queries have
\* answered; a limit query that raises ends grip with that exception).
C3_ForceSpeedOutsideProfile ==
    \A t \in Threads :
        LET r == th[t] IN
        (/\ r.op = "grip"
         /\ r.conn0 = "yes"
         /\ (r.n_force < 20 \/ r.n_force > 140 \/ r.p_speed < 10 \/ r.p_speed > 100))
        => /\ r.sent = <<>>
           /\ r.pc \in {"max_conn", "max_rpc", "min_conn", "min_rpc", "done"}
           /\ r.pc = "done" => r.ret \in {PyInt(-1), Raised}
           /\ r.min_width # PyNone => Outcome(r, -1)

\* a grip with a width inside the live limits and a force below the minimum has
\* returned FAILED
C3_Witness ==
    /\ th[1].op = "grip"
    /\ th[1].n_force < 20
    /\ th[1].p_speed = 10
    /\ th[1].min_width = PyInt(live_min)
    /\ th[1].max_width = PyInt(live_max)
    /\ th[1].t_width >= live_min
    /\ th[1].t_width <= live_max
    /\ Outcome(th[1], -1)

\* C4: a blocking grip returns FAILED when the busy flag is still set after more
\* than 30 busy polls, FAILED when busy cleared within 30 polls and the gripped
\* flag is still unset after more than 20 grip polls, OK when busy cleared within
\* 30 polls and the grip was detected within 20 polls; a busy flag read clear
\* within 30 polls always starts the grip detection.
C4_PollBudgets ==
    \A t \in Threads :
        LET r == th[t] IN
        (r.op = "grip" /\ r.f_wait /\ r.sent # <<>>) =>
            /\ (r.tim_cnt > 30 /\ r.fbusy = PyBool(TRUE)) => Outcome(r, -1)
            /\ (r.tim_cnt <= 30 /\ r.fbusy = PyBool(FALSE)) => r.nGripQ >= 1
            /\ (/\ r.tim_cnt <= 30
                /\ r.fbusy = PyBool(FALSE)
                /\ r.grip_tim > 20
                /\ r.gripped = PyBool(FALSE)) => Outcome(r, -1)
            /\ (/\ r.tim_cnt <= 30
                /\ r.fbusy = PyBool(FALSE)
                /\ r.grip_tim <= 20
                /\ r.gripped = PyBool(TRUE)) => Outcome(r, 0)

\* a blocking grip whose busy flag cleared at the 30th poll and whose grip was
\* detected at the 20th poll has returned OK
C4_Witness ==
    /\ th[1].op = "grip"
    /\ th[1].f_wait
    /\ th[1].tim_cnt = 30
    /\ th[1].fbusy = PyBool(FALSE)
    /\ th[1].grip_tim = 20
    /\ th[1].gripped = PyBool(TRUE)
    /\ Outcome(th[1], 0)

\* C5: no exception leaves a public operation.
C5_NoExceptionEscapes == \A t \in Threads : th[t].ret # Raised

----------------------------------------------------------------------------
(* Claims about the RPC lock, checked under SpecConc *)

\* the thread is inside a call made through _call_xmlrpc or _call_rest
InLockedCall(t) == th[t].incall /\ th[t].pc \in LockedSites

\* the thread is inside a blocking grip or move, between the dispatch of the
\* command and the return of the operation
InBlockingPoll(t) ==
    /\ th[t].op \in {"grip", "move"}
    /\ th[t].f_wait
    /\ th[t].sent # <<>>
    /\ th[t].pc # "done"

\* C6: at most one call is in progress on the shared channel at any time.
C6_OneCallAtATime == Cardinality(chan) <= 1

\* C7 as claimed: while a thread is inside a blocking grip or move, no call of
\* another thread is executed under the RPC lock.
C7_NoCallDuringPoll ==
    \A t \in Threads, u \in Threads :
        (InBlockingPoll(t) /\ u # t) => ~(InLockedCall(u) /\ lock = u)

\* C7 as amended: a thread holds the RPC lock exactly while it is inside one
\* call made through _call_xmlrpc or _call_rest, so a blocking grip or move does
\* not hold it between two polls, and no two such calls overlap.
C7_LockHeldPerCall ==
    /\ \A t \in Threads : (lock = t) <=> InLockedCall(t)
    /\ \A t \in Threads : (InBlockingPoll(t) /\ ~th[t].incall) => lock # t
    /\ \A t \in Threads, u \in Threads : (InLockedCall(t) /\ InLockedCall(u)) => t = u

\* caller 1 is between two busy polls of a blocking grip while caller 2 is
\* inside the remote query of isBusy, holding the lock
C7_Witness ==
    /\ InBlockingPoll(1)
    /\ th[1].op = "grip"
    /\ th[1].pc = "busy_conn"
    /\ th[1].tim_cnt >= 1
    /\ ~th[1].incall
    /\ th[2].op = "isBusy"
    /\ th[2].pc = "query"
    /\ InLockedCall(2)
    /\ lock = 2

----------------------------------------------------------------------------
(* Claims about the status cache, checked under SpecStatus *)

\* the pushed payload is a mapping with a "devices" key
IsStatusPayload(payload) == payload.isdict /\ "devices" \in payload.keys

\* C8: the cache refers to the most recent pushed mapping that has a "devices"
\* key, with that payload's arrival time; a pushed status payload replaces the
\* cached mapping by exactly what was pushed, and any other message leaves the
\* cached mapping and the timestamp as they were.
C8_CacheIsLastStatusPayload ==
    /\ [](latest.id = hist.lastValidId /\ latest_timestamp = hist.lastValidId)
    /\ [][nmsgs' # nmsgs =>
            IF IsStatusPayload(hist'.lastMsg)
            THEN /\ latest' = [id |-> nmsgs', keys |-> hist'.lastMsg.keys,
                               devices |-> hist'.lastMsg.devices]
                 /\ latest_timestamp' = nmsgs'
            ELSE /\ latest' = latest
                 /\ latest_timestamp' = latest_timestamp]_vars

\* a status payload was pushed second, then a mapping without "devices": the cache
\* still holds the second message
C8_Witness ==
    /\ nmsgs = 3
    /\ hist.lastMsg.isdict
    /\ hist.lastMsg.keys = {"other"}
    /\ latest.id = 2
    /\ latest_timestamp = 2
    /\ Len(latest.devices) = 1
    /\ ~hist.changed

\* C9: a callback that raises does not break the handler: the cache holds the
\* payload it was called with, and every status payload pushed afterwards is
\* stored with its timestamp and handed to the callback.
C9_CallbackFailureSwallowed ==
    /\ ~handler.broken
    /\ hist.cbFailed =>
         /\ latest.id = hist.lastValidId
         /\ latest_timestamp = hist.lastValidId
         /\ IF handler.pc = "callback"
            THEN hist.cbFor < latest.id
            ELSE hist.cbFor = hist.lastValidId

\* a callback raised, and a later status payload was stored and handed to the
\* callback
C9_Witness ==
    /\ hist.cbFailed
    /\ hist.cbAfterFail
    /\ handler.pc = "idle"
    /\ nmsgs >= 2
    /\ latest.id = nmsgs
    /\ latest_timestamp = nmsgs
    /\ hist.cbFor = nmsgs

\* C10: the cached snapshot changes only when a new payload is received.
C10_CallersCannotMutate == [][latest' = latest \/ nmsgs' # nmsgs]_vars

\* what the claim expects of get_device_variable: the variable block of the first
\* entry of the list whose deviceId and (when a code is given) productCode match,
\* None when no entry matches or that entry has no variable block
RECURSIVE FirstMatchOnly(_, _, _)
FirstMatchOnly(devices, device_id, product_code) ==
    IF devices = <<>> THEN PyNone
    ELSE LET device == Head(devices) IN
         IF /\ device.deviceId = device_id
            /\ (product_code.t = "none" \/ device.productCode = product_code.v)
         THEN (IF device.variable.t = "dict" THEN device.variable ELSE PyNone)
         ELSE FirstMatchOnly(Tail(devices), device_id, product_code)

\* C11: a cache read by slot and product code returns what the first matching
\* entry of the cached device list holds, and never the variable block of a
\* later matching entry.
C11_FirstMatchDecides ==
    [][(/\ got' # got
        /\ got'.kind = "variable"
        /\ got'.val # PyDict(9)
        /\ client.made)
       => got'.val = FirstMatchOnly(IF "devices" \in latest.keys THEN latest.devices ELSE <<>>,
                                    got'.query[1], got'.query[2])]_vars

----------------------------------------------------------------------------
(* Further claims about the operation driver, checked under Spec *)

\* C12: in grip and move, when the connectivity check that starts the operation
\* passed and a live width query reported CONNECTION_ERROR, the operation returns
\* CONNECTION_ERROR and dispatches nothing.
C12_LimitQueryConnectionError ==
    \A t \in Threads :
        LET r == th[t] IN
        (/\ r.op \in {"grip", "move"}
         /\ r.conn0 = "yes"
         /\ (r.max_width = PyInt(-2) \/ r.min_width = PyInt(-2))
         /\ r.pc = "done"
         /\ r.ret # Raised)
        => r.ret = PyInt(-2) /\ r.sent = <<>>

\* C13: set_finger_orientation on a connected device with a resolvable
\* orientation calls the RPC form first and begins the REST request only after
\* the RPC form has failed and only when a Compute Box address is configured; it
\* returns FAILED exactly when the RPC form failed and the REST form failed (or
\* could not be made for want of an address), and OK otherwise.
C13_RpcThenRest ==
    \A t \in Threads :
        LET r == th[t] IN
        (/\ r.op = "set_finger_orientation"
         /\ r.conn0 = "yes"
         /\ Resolve(r.orientation, r.outward) # PyNone)
        => /\ r.pc \in {"setorient_rpc", "setorient_rest", "done"}
           /\ r.pc = "setorient_rpc" => ~r.rpcFailed /\ ~r.rest
           /\ r.pc = "setorient_rest" => r.rpcFailed
           /\ r.rest => r.rpcFailed /\ cb_ip
           /\ r.restFailed => r.rpcFailed
           /\ (r.rpcFailed /\ ~cb_ip) => r.restFailed
           /\ r.pc = "done" =>
                /\ r.later
                /\ r.resolved = Resolve(r.orientation, r.outward)
                /\ r.ret = PyInt(IF r.rpcFailed /\ r.restFailed THEN -1 ELSE 0)

\* the RPC form failed and the REST request succeeded: OK
C13_Witness ==
    /\ th[1].op = "set_finger_orientation"
    /\ th[1].orientation = PyStr(<<"o", "u", "t">>)
    /\ th[1].outward = PyNone
    /\ th[1].rpcFailed
    /\ th[1].rest
    /\ ~th[1].restFailed
    /\ Outcome(th[1], 0)

----------------------------------------------------------------------------
(* Claim about the two locks, checked under SpecLocks *)

\* C14: the two locks are independent.  Whatever the state of the RPC lock, the
\* status handler and a cache reader take the cache lock as soon as it is free
\* and complete their locked block; whatever the state of the cache lock, a
\* caller takes the RPC lock as soon as it is free and its call can end.
C14_LocksIndependent ==
    /\ (client.connected /\ handler.pc = "idle" /\ nmsgs < MaxMsgs /\ cache_lock = "free")
          => ENABLED (HandleMessageLock /\ cache_lock' = "handler")
    /\ handler.pc = "store" => ENABLED HandleMessageStore
    /\ (client.made /\ got.kind # "reading" /\ cache_lock = "free") => ENABLED ReadLock
    /\ got.kind = "reading" => ENABLED ReadCopy
    /\ \A t \in Threads :
          /\ (th[t].pc \in LockedSites /\ ~th[t].incall /\ lock = 0) => ENABLED CallBegin(t)
          /\ (th[t].pc \in ConnSites /\ th[t].incall) => ENABLED ConnReturn(t)
          /\ (th[t].pc = "query" /\ th[t].incall) => ENABLED QueryReturn(t)
          /\ (th[t].pc = "setorient_rest" /\ th[t].incall) => ENABLED RestReturn(t)

\* the handler is inside its locked block while a caller is inside a REST call,
\* holding the RPC lock
C14_Witness ==
    /\ cache_lock = "handler"
    /\ handler.pc = "store"
    /\ lock = 2
    /\ th[2].pc = "setorient_rest"
    /\ th[2].incall

----------------------------------------------------------------------------
(* Claims about dispatch and polling, checked under Spec *)

\* the operation's validation passed: both live limits were returned and the
\* checks between the limit queries and the dispatch reject nothing
PassedValidation(r) ==
    /\ r.op \in {"grip", "move"}
    /\ r.conn0 = "yes"
    /\ r.max_width = PyInt(live_max)
    /\ r.min_width = PyInt(live_min)
    /\ ~Rejected(r)

\* C15: a grip or move called with f_wait false that passed the connectivity
\* check and the validation dispatches exactly one command, makes no busy-flag
\* and no grip-detected query, and returns OK as soon as the dispatch call has
\* returned.
C15_FireAndForget ==
    \A t \in Threads :
        LET r == th[t] IN
        (PassedValidation(r) /\ ~r.f_wait) =>
            /\ r.pc \in {"dispatch", "done"}
            /\ r.nBusyQ = 0
            /\ r.nGripQ = 0
            /\ Len(r.sent) <= 1
            /\ r.pc = "dispatch" => (r.incall <=> Len(r.sent) = 1)
            /\ r.pc = "done" => /\ r.sent = <<Command(r)>>
                                /\ r.ret \in {PyInt(0), Raised}
                                /\ ~r.incall

\* a move called with f_wait false has dispatched its command and returned OK
C15_Witness ==
    /\ PassedValidation(th[1])
    /\ th[1].op = "move"
    /\ ~th[1].f_wait
    /\ Len(th[1].sent) = 1
    /\ th[1].nBusyQ = 0
    /\ Outcome(th[1], 0)

\* the orientation is a number (Python's True and False are left aside)
IsNumeric(x) == x.t \in {"int", "float"}

\* C16: orientation normalization, as applied by set_finger_orientation to its
\* orientation argument: the labels "outward", "out", "outside" in any case and
\* with surrounding whitespace give outward, "inward", "in", "inside" give
\* inward, any other label gives unknown; the number 2 gives outward, 1 gives
\* inward, every negative number gives unknown.
C16_OrientationNormalization ==
    \A t \in Threads :
        LET r == th[t]
            x == r.orientation IN
        (/\ r.op = "set_finger_orientation"
         /\ r.conn0 = "yes"
         /\ r.outward = PyNone
         /\ r.pc = "done")
        => /\ (x.t = "str" /\ Cleaned(x.s) \in OutwardLabels) => r.resolved = PyBool(TRUE)
           /\ (x.t = "str" /\ Cleaned(x.s) \in InwardLabels) => r.resolved = PyBool(FALSE)
           /\ (x.t = "str" /\ Cleaned(x.s) \notin OutwardLabels \cup InwardLabels)
                 => r.resolved = PyNone /\ r.ret = PyInt(-1)
           /\ (IsNumeric(x) /\ Tenths(x) = 20) => r.resolved = PyBool(TRUE)
           /\ (IsNumeric(x) /\ Tenths(x) = 10) => r.resolved = PyBool(FALSE)
           /\ (IsNumeric(x) /\ Tenths(x) < 0) => r.resolved = PyNone /\ r.ret = PyInt(-1)

\* the thread is in a blocking grip whose command was dispatched
InBlockingGrip(r) == r.op = "grip" /\ r.f_wait /\ r.sent # <<>>

\* C17: in a blocking grip, a busy-wait that exceeds its budget ends the grip
\* with FAILED and no grip-detected query at all; a grip-detected query is made
\* only after a busy-flag query returned not-busy within the budget.
C17_TimeoutSkipsDetection ==
    \A t \in Threads :
        LET r == th[t] IN
        InBlockingGrip(r) =>
            /\ r.tim_cnt > 30 => r.nGripQ = 0 /\ Outcome(r, -1)
            /\ r.nGripQ >= 1 => /\ r.nBusyQ >= 1
                                /\ r.fbusy \in {PyBool(FALSE), PyInt(0)}
                                /\ r.tim_cnt <= 30

\* a blocking grip whose busy flag was still set at the 31st poll of the loop
\* has returned FAILED without a grip-detected query
C17_Witness ==
    /\ InBlockingGrip(th[1])
    /\ th[1].tim_cnt = 31
    /\ th[1].nBusyQ = 32
    /\ th[1].fbusy = PyBool(TRUE)
    /\ th[1].nGripQ = 0
    /\ Outcome(th[1], -1)

\* C18: a move never makes a grip-detected query; it checks the width alone and
\* dispatches the requested width with force 100 and speed 80; when blocking, it
\* returns OK once the busy flag is read clear within 30 polls and FAILED once
\* the 30 polls are exceeded.
C18_MoveBusyPhaseOnly ==
    \A t \in Threads :
        LET r == th[t] IN
        (r.op = "move" /\ r.conn0 = "yes") =>
            /\ r.nGripQ = 0
            /\ r.pc \notin {"grip_conn", "grip_rpc"}
            /\ \A i \in 1..Len(r.sent) :
                  r.sent[i] = <<PyFloat(10 * r.t_width), PyInt(100), PyInt(80)>>
            /\ (/\ r.max_width = PyInt(live_max)
                /\ r.min_width = PyInt(live_min)
                /\ r.t_width >= live_min
                /\ r.t_width <= live_max) => (r.pc = "dispatch" \/ Len(r.sent) = 1)
            /\ (r.f_wait /\ r.sent # <<>>) =>
                  /\ (r.nBusyQ >= 1 /\ r.tim_cnt <= 30 /\ r.fbusy = PyBool(FALSE))
                        => Outcome(r, 0)
                  /\ r.tim_cnt > 30 => Outcome(r, -1)
                  /\ Outcome(r, 0) => r.fbusy = PyBool(FALSE)

\* a blocking move whose busy flag was read clear at the 30th poll of the loop
\* has returned OK
C18_Witness ==
    /\ th[1].op = "move"
    /\ th[1].f_wait
    /\ th[1].sent = <<<<PyFloat(10 * th[1].t_width), PyInt(100), PyInt(80)>>>>
    /\ th[1].tim_cnt = 30
    /\ th[1].fbusy = PyBool(FALSE)
    /\ th[1].nGripQ = 0
    /\ Outcome(th[1], 0)

\* C19: a blocking grip returns OK only when its last grip-detected query
\* returned the flag value true; a CONNECTION_ERROR code obtained in place of a
\* flag never leads to OK.
C19_OkOnlyWhenGripDetected ==
    \A t \in Threads :
        LET r == th[t] IN
        (InBlockingGrip(r) /\ Outcome(r, 0)) =>
            /\ r.nGripQ >= 1
            /\ r.gripped = PyBool(TRUE)
            /\ r.fbusy # PyInt(-2)

----------------------------------------------------------------------------
(* Claim about termination, checked under SpecFair *)

\* C20: when every call returns, a blocking grip or move returns, whatever the
\* busy and gripped flags read; a blocking grip has made at most 32 busy-flag
\* and at most 22 grip-detected queries, a blocking move at most 32 busy-flag
\* queries.
C20_BlockingTerminates ==
    /\ [](\A t \in Threads : th[t].nBusyQ <= 32 /\ th[t].nGripQ <= 22)
    /\ (th[1].op \in {"grip", "move"} /\ th[1].f_wait) ~> (th[1].pc = "done")

\* a blocking grip has returned after 31 busy-flag queries and 22 grip-detected
\* queries
C20_Witness ==
    /\ InBlockingGrip(th[1])
    /\ th[1].pc = "done"
    /\ th[1].nBusyQ = 31
    /\ th[1].nGripQ = 22

----------------------------------------------------------------------------
(* Claim about the last poll of a budget, checked under Spec *)

\* the thread is in a blocking grip or move whose command was dispatched and
\* which has returned FAILED: a timeout was reported
ReportedTimeout(r) ==
    /\ r.op \in {"grip", "move"}
    /\ r.f_wait
    /\ r.sent # <<>>
    /\ Outcome(r, -1)

\* C21, for the busy-wait: a blocking grip or move reports a busy timeout only
\* when the last busy-flag query it made (and so every one) returned busy.
C21_BusyTimeoutOnlyWhenBusy ==
    \A t \in Threads :
        LET r == th[t] IN
        (ReportedTimeout(r) /\ r.nGripQ = 0) => r.fbusy # PyBool(FALSE)

\* C21, for the grip detection: a blocking grip reports a grip-detection
\* timeout only when the last grip-detected query it made returned not-gripped.
C21_GripTimeoutOnlyWhenNotGripped ==
    \A t \in Threads :
        LET r == th[t] IN
        (ReportedTimeout(r) /\ r.nGripQ >= 1) => r.gripped # PyBool(TRUE)

\* C21: a timeout is reported only when every query of the phase that timed out
\* returned the flag value that keeps the phase waiting; a busy flag read clear,
\* or a grip read detected, at the last poll of the budget counts.
C21_TimeoutOnlyWhenFlagNeverChanged ==
    C21_BusyTimeoutOnlyWhenBusy /\ C21_GripTimeoutOnlyWhenNotGripped

====
